---- MODULE Spec2Model ----
(***************************************************************************)
(* Position lifecycle and risk-control engine of the Solana momentum bot:  *)
(* PositionManager (enter / exit / monitorPositions / loadState /          *)
(* saveState), RiskManager, and the timers of index.ts.                    *)
(*                                                                         *)
(* Units.  SOL amounts are integers in micro-SOL (0.84 SOL = 840000), so   *)
(* that the 4-decimal rounding of calcPositionSize and the 15 % haircut of *)
(* a failed sell are exact.  Prices are integer ticks; every price the     *)
(* model multiplies by 0.85 or 1.30 is a multiple of 20, so those products *)
(* are exact as well.  Swap outputs are lamports (1e-9 SOL), as in         *)
(* SwapResult.outputAmount.                                                *)
(*                                                                         *)
(* Scheduling.  Node runs every callback to its next await of an external  *)
(* call; an await of an already settled promise (every Notifier method:    *)
(* send() never awaits the flush) resumes in the same microtask drain,     *)
(* before any timer or I/O callback.  One action of the model is therefore *)
(* one such run: from a timer firing or an external reply up to the next   *)
(* external request.  The two awaits of one signal evaluation             *)
(* (sentiment.getScore, signalDetector.evaluate) read no state between     *)
(* them and are one step.                                                  *)
(*                                                                         *)
(* The Notifier's queue is the variable notifier; it stays empty when       *)
(* Telegram is not configured (enabled false), which is the case in every  *)
(* specification but SpecNotifier. Outside the model: the RugChecker's     *)
(* cache, and marketTimer's tick counter and log entries.                  *)
(***************************************************************************)
EXTENDS Integers, Sequences, FiniteSets, Bags, TLC

(* ------------------------- program constants -------------------------- *)
initialCapitalSol    == 840000
maxPositionSizePct   == 10
maxPositions         == 3
stopLossPct          == 15
takeProfitPct        == 30
portfolioStopLossSol == 340000
DustThresholdSol     == 1000
FailedSellHaircutPct == 15
LamportsPerMicroSol  == 1000
MaxCandidates        == 5
MAX_SAFE_SCORE       == 500

(* ------------------------------ bounds -------------------------------- *)
MaxCreated  == 2   \* positions enter() may create in one run
MaxExits    == 2   \* exits of one run that reach closedPositions
MaxInFlight == 2   \* timer callbacks (monitor passes, signal cycles) in flight at once
MaxOverlap  == 10  \* signal cycles in flight, and entries, in the runs of overlapping cycles

(* ---------------------- inputs of the environment --------------------- *)
\* replies of getTokenPriceInSol: null on a failed request, else a number
PriceUnavailable == [ok |-> FALSE, value |-> 0]
PriceReplies == {PriceUnavailable} \cup
                {[ok |-> TRUE, value |-> v] : v \in {0, 200, 240, 400}}
\* SwapResult of trader.sell: failure, or success with outputAmount lamports
SellFailed  == [success |-> FALSE, outputAmount |-> 0]
SellResults == {SellFailed} \cup
               {[success |-> TRUE, outputAmount |-> 100000000]}
\* SwapResult of trader.buy: failure, or success with outputAmount tokens
BuyFailed  == [success |-> FALSE, outputAmount |-> 0]
BuyResults == {BuyFailed, [success |-> TRUE, outputAmount |-> 1000]}
\* what the request to api.rugcheck.xyz brings: no answer, or a report with
\* its score (which may be missing), whether a danger-level risk has one of
\* the critical names, and the number of danger-level risks
RugUnavailable == [ok |-> FALSE, score |-> <<>>, critical |-> FALSE, dangers |-> 0]
RugReport(score, critical, dangers) ==
    [ok |-> TRUE, score |-> score, critical |-> critical, dangers |-> dangers]
RugReplies ==
    {RugUnavailable,
     RugReport(<<500>>, FALSE, 0), RugReport(<<500>>, FALSE, 1),
     RugReport(<<501>>, FALSE, 0), RugReport(<<>>, FALSE, 0),
     RugReport(<<300>>, TRUE, 1),  RugReport(<<300>>, FALSE, 2)}
\* TokenInfo records the scanner may list (address, price)
TokenA == [address |-> "A", price |-> 200]
TokenB == [address |-> "B", price |-> 300]
ScanResults == {<<>>, <<TokenA, TokenB>>}

(* optional fields of a Position (exitPrice?, pnlSol?) *)
None    == <<>>
Some(v) == <<v>>

(* ------------------------------ helpers ------------------------------- *)
RECURSIVE SumSeq(_)
SumSeq(s) == IF s = <<>> THEN 0 ELSE Head(s) + SumSeq(Tail(s))

Max(a, b) == IF a >= b THEN a ELSE b

\* Array.prototype.findIndex(p => p.id === id), 1-based; 0 stands for -1
FindIndex(ids, id) ==
    IF \E j \in 1..Len(ids) : ids[j] = id
    THEN CHOOSE j \in 1..Len(ids) : ids[j] = id /\ \A h \in 1..(j-1) : ids[h] # id
    ELSE 0

\* Array.prototype.splice(idx, 1) with a 1-based idx: nothing is removed
\* when idx is past the end
Splice(s, idx) ==
    IF idx \in 1..Len(s)
    THEN [j \in 1..(Len(s)-1) |-> IF j < idx THEN s[j] ELSE s[j+1]]
    ELSE s

\* Array.prototype.slice(0, n)
Slice(s, n) == IF Len(s) <= n THEN s ELSE SubSeq(s, 1, n)

(* ----------------------------- RiskManager ---------------------------- *)
\* canEnter testing the portfolio loss before the number of positions
canEnterLossFirst(st) ==
    IF st.isStopped THEN [allowed |-> FALSE, reason |-> "stopped"]
    ELSE IF st.totalPnlSol <= -portfolioStopLossSol
         THEN [allowed |-> FALSE, reason |-> "loss"]
    ELSE IF Len(st.openPositions) >= maxPositions
         THEN [allowed |-> FALSE, reason |-> "capacity"]
    ELSE [allowed |-> TRUE, reason |-> "none"]

canEnter(st) ==
    IF st.isStopped THEN [allowed |-> FALSE, reason |-> "stopped"]
    ELSE IF Len(st.openPositions) >= maxPositions
         THEN [allowed |-> FALSE, reason |-> "capacity"]
    ELSE IF st.totalPnlSol <= -portfolioStopLossSol
         THEN [allowed |-> FALSE, reason |-> "loss"]
    ELSE [allowed |-> TRUE, reason |-> "none"]

\* calcPositionSize cutting the size to 4 decimals instead of rounding it
calcPositionSizeTruncated(currentCapital) ==
    ((currentCapital * maxPositionSizePct) \div 10000) * 100

\* Math.round(capital * pct * 10000) / 10000 in SOL: the nearest multiple
\* of 100 micro-SOL, halves rounded up
calcPositionSize(currentCapital) ==
    ((currentCapital * maxPositionSizePct + 5000) \div 10000) * 100

\* an initial stop at 10% under the entry price, closer than the trailing
\* distance
calcStopLossTight(entryPrice) == (entryPrice * 90) \div 100
calcStopLoss(entryPrice)   == (entryPrice * (100 - stopLossPct)) \div 100
calcTakeProfit(entryPrice) == (entryPrice * (100 + takeProfitPct)) \div 100

\* checkExit testing the stop first, as the older copy of riskManager.ts
\* does (part_003 184-188)
checkExitStopFirst(position, currentPrice) ==
    IF currentPrice <= position.stopLoss THEN "stop_loss"
    ELSE IF currentPrice >= position.takeProfit THEN "take_profit"
    ELSE "hold"

\* the riskManager.ts that has updateTrailingStop, which monitorPositions
\* calls (part_003 66-74)
checkExit(position, currentPrice) ==
    IF currentPrice >= position.takeProfit THEN "take_profit"
    ELSE IF currentPrice <= position.stopLoss THEN "stop_loss"
    ELSE "hold"

\* updateTrailingStop without its two guards: the stop follows every price
TrailedPositionUnguarded(position, currentPrice) ==
    [position EXCEPT !.highestPrice = currentPrice,
                     !.stopLoss = (currentPrice * (100 - stopLossPct)) \div 100]

\* updateTrailingStop recording the last price as the highest one
TrailedPositionLastPrice(position, currentPrice) ==
    LET trailingSL == (currentPrice * (100 - stopLossPct)) \div 100
        initialSL  == (position.entryPrice * (100 - stopLossPct)) \div 100
        newSL      == Max(trailingSL, initialSL)
    IN  IF newSL > position.stopLoss
        THEN [position EXCEPT !.highestPrice = currentPrice, !.stopLoss = newSL]
        ELSE [position EXCEPT !.highestPrice = currentPrice]

\* updateTrailingStop keeping the stop at the entry's distance under the price
TrailedPositionFixedDistance(position, currentPrice) ==
    IF currentPrice <= position.highestPrice THEN position
    ELSE LET distance == (position.entryPrice * stopLossPct) \div 100
             newSL    == currentPrice - distance
         IN  IF newSL > position.stopLoss
             THEN [position EXCEPT !.highestPrice = currentPrice, !.stopLoss = newSL]
             ELSE [position EXCEPT !.highestPrice = currentPrice]

\* the position after updateTrailingStop(position, currentPrice)
TrailedPosition(position, currentPrice) ==
    IF currentPrice <= position.highestPrice THEN position
    ELSE LET trailingSL == (currentPrice * (100 - stopLossPct)) \div 100
             initialSL  == (position.entryPrice * (100 - stopLossPct)) \div 100
             newSL      == Max(trailingSL, initialSL)
         IN  IF newSL > position.stopLoss
             THEN [position EXCEPT !.highestPrice = currentPrice, !.stopLoss = newSL]
             ELSE [position EXCEPT !.highestPrice = currentPrice]

\* updateTrailingStop testing the new stop against the one it has just
\* written: it never reports an update
updateTrailingStopLateTest(position, currentPrice) ==
    LET written == TrailedPosition(position, currentPrice)
    IN  /\ currentPrice > position.highestPrice
        /\ written.stopLoss > written.stopLoss

\* the boolean updateTrailingStop(position, currentPrice) returns
updateTrailingStop(position, currentPrice) ==
    /\ currentPrice > position.highestPrice
    /\ TrailedPosition(position, currentPrice).stopLoss # position.stopLoss

\* the halt test with an exclusive boundary
shouldStopPortfolioStrict(st) == st.totalPnlSol < -portfolioStopLossSol

shouldStopPortfolio(st) == st.totalPnlSol <= -portfolioStopLossSol

(* ------------------------------- state -------------------------------- *)
VARIABLES
    state,        \* BotState; openPositions / closedPositions hold object ids
    positions,    \* the Position objects, by id (an object is shared by the
                  \* arrays, a monitor pass's snapshot and a running exit())
    disk,         \* state.json: NoFile or the last JSON written by saveState
    monitors,     \* bag of monitorPositions() calls in flight
    signals,      \* bag of signalTimer callbacks in flight
    cachedTokens, \* index.ts cachedTokens
    refreshed,    \* lastTokenRefresh # 0
    timersActive, \* the four intervals are not cleared
    alive,        \* process.exit has not run
    notified,     \* notifier calls made so far: which of tradeEntered, tradeExited,
                  \* portfolioStop, botStopped
    notifier      \* the Notifier object: enabled, queue, flushing, the
                  \* flushQueue() calls in flight, and two histories: the
                  \* texts pushed (sent) and the texts shifted (attempts)

vars == <<state, positions, disk, monitors, signals, cachedTokens, refreshed,
          timersActive, alive, notified, notifier>>

(* ------------------------- Notifier: the queue ------------------------ *)
\* new Notifier(): enabled is whether TELEGRAM_BOT_TOKEN and
\* TELEGRAM_CHAT_ID are set
NewNotifier(enabled) ==
    [enabled  |-> enabled,
     queue    |-> <<>>,
     flushing |-> FALSE,
     loops    |-> EmptyBag,
     sent     |-> <<>>,
     attempts |-> <<>>]

\* flushQueue at its while test, to its next await or its end
FlushStep(n) ==
    IF n.queue # <<>>
    THEN [n EXCEPT !.queue    = Tail(@),
                   !.attempts = Append(@, Head(n.queue)),
                   !.loops    = @ (+) SetToBag({[pc |-> "post", text |-> Head(n.queue)]})]
    ELSE [n EXCEPT !.flushing = FALSE]

\* flushQueue() from its call to its first await
StartFlush(n) == FlushStep([n EXCEPT !.flushing = TRUE])

\* send() calling flushQueue() without looking at flushing
SendAlwaysFlushes(n, text) ==
    IF ~n.enabled THEN n
    ELSE StartFlush([n EXCEPT !.queue = Append(@, text), !.sent = Append(@, text)])

\* send(message, level), lines 36-44
Send(n, text) ==
    IF ~n.enabled THEN n
    ELSE LET n1 == [n EXCEPT !.queue = Append(@, text), !.sent = Append(@, text)]
         IN  IF ~n1.flushing THEN StartFlush(n1) ELSE n1

\* several notifications of one handler, in order
RECURSIVE SendAll(_, _)
SendAll(n, texts) ==
    IF texts = <<>> THEN n ELSE SendAll(Send(n, Head(texts)), Tail(texts))

\* JSON.stringify(this.state): the arrays are written with their objects
Serialize(st, heap) ==
    [exists          |-> TRUE,
     capitalSol      |-> st.capitalSol,
     openPositions   |-> [j \in 1..Len(st.openPositions) |-> heap[st.openPositions[j]]],
     closedPositions |-> [j \in 1..Len(st.closedPositions) |-> heap[st.closedPositions[j]]],
     totalPnlSol     |-> st.totalPnlSol,
     isRunning       |-> st.isRunning,
     isStopped       |-> st.isStopped]

(* ------------------------ Position and state.json --------------------- *)
\* the Position object enter() builds (positionManager.ts 83-95)
NewPosition(id, token, positionSizeSol, tokenAmount) ==
    [id           |-> id,
     tokenAddress |-> token.address,
     entryPrice   |-> token.price,
     entryAmount  |-> positionSizeSol,
     tokenAmount  |-> tokenAmount,
     stopLoss     |-> calcStopLoss(token.price),
     takeProfit   |-> calcTakeProfit(token.price),
     highestPrice |-> token.price,
     status       |-> "open",
     exitPrice    |-> None,
     pnlSol       |-> None]

\* ids: this run's entries are 1, 2, ...; positions a file holds open are
\* -1, -2; positions closed before that are -11, -12, ...
ClosedLongAgo(id) == id < -10

\* a position of an earlier run, closed by a successful sell that paid
\* receivedSol
EarlierClosed(id, token, size, receivedSol) ==
    [NewPosition(id, token, size, 1000) EXCEPT
        !.status    = "closed",
        !.exitPrice = Some((receivedSol * LamportsPerMicroSol) \div 1000),
        !.pnlSol    = Some(receivedSol - size)]

\* fs.existsSync(STATE_FILE) is false
NoFile ==
    [exists          |-> FALSE,
     capitalSol      |-> 0,
     openPositions   |-> <<>>,
     closedPositions |-> <<>>,
     totalPnlSol     |-> 0,
     isRunning       |-> FALSE,
     isStopped       |-> FALSE]

\* state.json left by an earlier run: five losing trades, 0.33238 SOL lost;
\* the next entry is 0.0508 SOL, and a failed sell of it brings the loss to
\* 0.34 SOL exactly
NearHaltFile ==
    [exists          |-> TRUE,
     capitalSol      |-> 507620,
     openPositions   |-> <<>>,
     closedPositions |-> << EarlierClosed(-11, TokenA, 84000, 0),
                            EarlierClosed(-12, TokenB, 75600, 0),
                            EarlierClosed(-13, TokenA, 68000, 0),
                            EarlierClosed(-14, TokenB, 61200, 0),
                            EarlierClosed(-15, TokenA, 55100, 11520) >>,
     totalPnlSol     |-> -332380,
     isRunning       |-> FALSE,
     isStopped       |-> FALSE]

\* state.json left by the run that followed: two entries, then the sell of
\* the first one failed, the portfolio stop fired and the bot was shut down
HaltedFile ==
    [exists          |-> TRUE,
     capitalSol      |-> 454300,
     openPositions   |-> << NewPosition(-2, TokenB, 45700, 1000) >>,
     closedPositions |-> Append(NearHaltFile.closedPositions,
                                [NewPosition(-1, TokenA, 50800, 1000) EXCEPT
                                    !.status    = "closed",
                                    !.exitPrice = Some(170),
                                    !.pnlSol    = Some(-7620)]),
     totalPnlSol     |-> -340000,
     isRunning       |-> FALSE,
     isStopped       |-> TRUE]

\* state.json left by a first run that entered twice and was stopped
TwoOpenFile ==
    [exists          |-> TRUE,
     capitalSol      |-> 680400,
     openPositions   |-> << NewPosition(-1, TokenA, 84000, 1000),
                            NewPosition(-2, TokenB, 75600, 1000) >>,
     closedPositions |-> <<>>,
     totalPnlSol     |-> 0,
     isRunning       |-> FALSE,
     isStopped       |-> FALSE]

PersistedFiles == {NoFile, NearHaltFile, HaltedFile}

\* state.json left by a first run that entered twice, at prices 1.00 and
\* 1.20 (1000 and 1200 ticks here), and was stopped
TokenC == [address |-> "C", price |-> 1000]
TokenD == [address |-> "D", price |-> 1200]
ScenarioFile ==
    [exists          |-> TRUE,
     capitalSol      |-> 680400,
     openPositions   |-> << NewPosition(-1, TokenC, 84000, 1000),
                            NewPosition(-2, TokenD, 75600, 1000) >>,
     closedPositions |-> <<>>,
     totalPnlSol     |-> 0,
     isRunning       |-> FALSE,
     isStopped       |-> FALSE]

\* the compatibility step giving zero to a record without highestPrice
WithHighestPriceZero(p) ==
    IF "highestPrice" \in DOMAIN p THEN p
    ELSE [f \in DOMAIN p \cup {"highestPrice"} |->
             IF f = "highestPrice" THEN 0 ELSE p[f]]

\* loadState's compatibility step for one open position
WithHighestPrice(p) ==
    IF "highestPrice" \in DOMAIN p THEN p
    ELSE [f \in DOMAIN p \cup {"highestPrice"} |->
             IF f = "highestPrice" THEN p.entryPrice ELSE p[f]]

\* the objects JSON.parse creates for a file, by id
LoadedObjects(file) ==
    LET op  == file.openPositions
        cl  == file.closedPositions
        ids == {op[j].id : j \in 1..Len(op)} \cup {cl[j].id : j \in 1..Len(cl)}
    IN  [id \in ids |->
           IF \E j \in 1..Len(op) : op[j].id = id
           THEN WithHighestPrice(op[CHOOSE j \in 1..Len(op) : op[j].id = id])
           ELSE cl[CHOOSE j \in 1..Len(cl) : cl[j].id = id]]

\* PositionManager.loadState(initialCapital)
loadState(file, initialCapital) ==
    IF ~file.exists
    THEN [capitalSol      |-> initialCapital,
          openPositions   |-> <<>>,
          closedPositions |-> <<>>,
          totalPnlSol     |-> 0,
          isRunning       |-> FALSE,
          isStopped       |-> FALSE]
    ELSE [capitalSol      |-> file.capitalSol,
          openPositions   |-> [j \in 1..Len(file.openPositions) |-> file.openPositions[j].id],
          closedPositions |-> [j \in 1..Len(file.closedPositions) |-> file.closedPositions[j].id],
          totalPnlSol     |-> file.totalPnlSol,
          isRunning       |-> file.isRunning,
          isStopped       |-> file.isStopped]

\* main(): construct the Notifier and the PositionManager, set isRunning,
\* saveState, botStarted
InitWith(files, enabled) ==
    \E file \in files :
        /\ positions = LoadedObjects(file)
        /\ state = [loadState(file, initialCapitalSol) EXCEPT !.isRunning = TRUE]
        /\ disk = Serialize(state, positions)
        /\ monitors = EmptyBag
        /\ signals = EmptyBag
        /\ cachedTokens = <<>>
        /\ refreshed = FALSE
        /\ timersActive = TRUE
        /\ alive = TRUE
        /\ notified = {}
        /\ notifier = Send(NewNotifier(enabled), "started")

\* the runs in which Telegram is not configured: send() only logs
InitFrom(files) == InitWith(files, FALSE)

Init == InitFrom(PersistedFiles)

\* the process starts on the file of a run that left two positions open
InitTwoOpen == InitFrom({TwoOpenFile})

(* --------------------------- tasks in flight -------------------------- *)
With(bag, t)    == bag (+) SetToBag({t})
Without(bag, t) == bag (-) SetToBag({t})

\* uuidv4(): a fresh id; this run's ids count its entries
Created == Cardinality({id \in DOMAIN positions : id > 0})
NextId  == Created + 1
\* entries this run's exits have added to closedPositions
Exits == Cardinality({j \in 1..Len(state.closedPositions) :
                         ~ClosedLongAgo(state.closedPositions[j])})
\* timer callbacks in flight
InFlight == BagCardinality(monitors) + BagCardinality(signals)

\* exit() has been called and has not reached its first await: no other
\* callback runs in between
Busy == \E t \in BagToSet(monitors) : t.pc = "exit"

(* ------------------------------ Notifier ------------------------------ *)
\* a send() that waits for the Telegram request and lets its failure out
AwaitSendPropagates(delivered) == IF delivered THEN "resolved" ELSE "rejected"

\* what `await notifier.tradeExited(...)` and the other Notifier methods
\* give their caller, whether the Telegram request behind them will succeed
\* (delivered) or fail: send() queues the text and returns, and flushQueue
\* catches the error of the request (notifier.ts 36-62)
AwaitSend(delivered) == "resolved"

(* ------------------------- PositionManager.exit ----------------------- *)
\* lines 136-143: what the sell paid, or the fallback valuation
ReceivedSol(position, result) ==
    IF result.success
    THEN result.outputAmount \div LamportsPerMicroSol
    ELSE (position.entryAmount * (100 - FailedSellHaircutPct)) \div 100

ExitPrice(position, result) ==
    IF result.success
    THEN result.outputAmount \div position.tokenAmount
    ELSE position.stopLoss

\* lines 151-154: the exit fields written on the object
ExitedPosition(position, result) ==
    [position EXCEPT
        !.exitPrice = Some(ExitPrice(position, result)),
        !.pnlSol    = Some(ReceivedSol(position, result) - position.entryAmount),
        !.status    = "closed"]

\* exit() assigning the outcome of the halt test, instead of only setting
\* the flag
ExitedStateRecomputed(st, position, idx, result) ==
    LET receivedSol == (IF result.success
                        THEN result.outputAmount \div LamportsPerMicroSol
                        ELSE (position.entryAmount * (100 - FailedSellHaircutPct)) \div 100)
        st1 == [st EXCEPT
                   !.openPositions   = Splice(@, idx),
                   !.closedPositions = Append(@, position.id),
                   !.capitalSol      = @ + receivedSol,
                   !.totalPnlSol     = @ + (receivedSol - position.entryAmount)]
    IN  [st1 EXCEPT !.isStopped = (st1.totalPnlSol <= -portfolioStopLossSol)]

\* lines 156-159: the ledger when exit() reaches its first notification
ClosedState(st, position, idx, result) ==
    LET receivedSol == ReceivedSol(position, result)
    IN  [st EXCEPT
            !.openPositions   = Splice(@, idx),
            !.closedPositions = Append(@, position.id),
            !.capitalSol      = @ + receivedSol,
            !.totalPnlSol     = @ + (receivedSol - position.entryAmount)]

\* lines 156-159 and 181-182: the ledger after the sell of the object
\* found at index idx before the await
ExitedState(st, position, idx, result) ==
    LET receivedSol == ReceivedSol(position, result)
        st1 == [st EXCEPT
                   !.openPositions   = Splice(@, idx),
                   !.closedPositions = Append(@, position.id),
                   !.capitalSol      = @ + receivedSol,
                   !.totalPnlSol     = @ + (receivedSol - position.entryAmount)]
    IN  IF shouldStopPortfolio(st1) THEN [st1 EXCEPT !.isStopped = TRUE] ELSE st1

(* --------------------- PositionManager.monitorPositions --------------- *)
MonitorTask(snap, i) ==
    [pc |-> "price", snap |-> snap, i |-> i, idx |-> 0, reason |-> "none"]

\* a pass that ends at the first position it does not act on
MonitorContinueEndsPass(bag, t) == Without(bag, t)

\* the for loop moves to the next position of the snapshot, or ends
MonitorContinue(bag, t) ==
    IF t.i < Len(t.snap)
    THEN With(Without(bag, t), MonitorTask(t.snap, t.i + 1))
    ELSE Without(bag, t)

\* a pass whose error leaves the for loop
MonitorCatchRethrows(bag, t) == Without(bag, t)

\* the catch block inside the for loop of monitorPositions (lines 219-221):
\* the error is logged and the loop takes the next position
MonitorCatch(bag, t) == MonitorContinue(bag, t)

\* monitorTimer without its isStopped test
MonitorTickAlways ==
    /\ alive /\ timersActive /\ ~Busy
    /\ \/ /\ state.openPositions = <<>>
          /\ monitors' = monitors
       \/ /\ state.openPositions # <<>>
          /\ InFlight < MaxInFlight
          /\ monitors' = With(monitors, MonitorTask(state.openPositions, 1))
    /\ UNCHANGED <<state, positions, disk, signals, cachedTokens, refreshed,
                   timersActive, alive, notified, notifier>>

\* monitorTimer fires (index.ts 170-177) and monitorPositions runs up to
\* its first price request
MonitorTick ==
    /\ alive /\ timersActive /\ ~Busy
    /\ \/ /\ state.isStopped \/ state.openPositions = <<>>
          /\ monitors' = monitors
       \/ /\ ~state.isStopped /\ state.openPositions # <<>>
          /\ InFlight < MaxInFlight
          /\ monitors' = With(monitors, MonitorTask(state.openPositions, 1))
    /\ UNCHANGED <<state, positions, disk, signals, cachedTokens, refreshed,
                   timersActive, alive, notified, notifier>>

\* getTokenPriceInSol replies: lines 198-210, to the call of exit().
\* stored: fs.writeFileSync of saveState succeeds; when it throws, the
\* catch block of the loop takes over before checkExit
PriceDoneStoring(t, reply, stored) ==
    /\ alive /\ ~Busy
    /\ t.pc = "price"
    /\ LET id  == t.snap[t.i]
           pos == positions[id]
       IN  IF ~reply.ok \/ reply.value = 0
           THEN /\ monitors' = MonitorContinue(monitors, t)
                /\ UNCHANGED <<positions, disk>>
           ELSE LET slUpdated == updateTrailingStop(pos, reply.value)
                    pos1   == TrailedPosition(pos, reply.value)
                    heap1  == [positions EXCEPT ![id] = pos1]
                    action == checkExit(pos1, reply.value)
                IN  /\ positions' = heap1
                    /\ IF slUpdated /\ ~stored
                       THEN /\ disk' = disk
                            /\ monitors' = MonitorCatch(monitors, t)
                       ELSE /\ disk' = IF slUpdated THEN Serialize(state, heap1) ELSE disk
                            /\ monitors' = IF action = "hold"
                                           THEN MonitorContinue(monitors, t)
                                           ELSE With(Without(monitors, t),
                                                     [t EXCEPT !.pc = "exit", !.reason = action])
    /\ UNCHANGED <<state, signals, cachedTokens, refreshed, timersActive, alive, notified, notifier>>

\* the runs in which state.json can be written
PriceDone(t, reply) == PriceDoneStoring(t, reply, TRUE)

\* exit() without its idx === -1 test: splice(-1, 1) takes the last element
ExitIndexUnchecked(st, positionId) ==
    IF FindIndex(st.openPositions, positionId) # 0
    THEN FindIndex(st.openPositions, positionId)
    ELSE Len(st.openPositions)

\* exit(positionId, reason), lines 128-134: to the sell request, or the
\* return for an id that is not open
ExitIndex(st, positionId) == FindIndex(st.openPositions, positionId)

ExitCall(t) ==
    /\ alive
    /\ t.pc = "exit"
    /\ LET idx == ExitIndex(state, t.snap[t.i])
       IN  monitors' = IF idx = 0
                       THEN MonitorContinue(monitors, t)
                       ELSE With(Without(monitors, t), [t EXCEPT !.pc = "sell", !.idx = idx])
    /\ UNCHANGED <<state, positions, disk, signals, cachedTokens, refreshed,
                   timersActive, alive, notified, notifier>>

\* the reasons exit() accepts, and the label it logs and notifies for each
ExitReasons == {"stop_loss", "take_profit", "manual"}
reasonLabel(reason) ==
    CASE reason = "stop_loss"   -> "trailing stop loss"
      [] reason = "take_profit" -> "take profit"
      [] OTHER                  -> "manual"

\* an exit() that values a stop-loss close at the stop instead of at what
\* the sell returned
ExitOutcomeByReason(st, position, idx, reason, result) ==
    LET r == IF reason = "stop_loss" THEN SellFailed ELSE result
    IN  [state    |-> ExitedState(st, position, idx, r),
         position |-> ExitedPosition(position, r),
         label    |-> reasonLabel(reason)]

\* exit(positionId, reason) after the sell, lines 136-187: the ledger, the
\* closed record, and the label given to the trade log and the notifier
ExitOutcome(st, position, idx, reason, result) ==
    [state    |-> ExitedState(st, position, idx, result),
     position |-> ExitedPosition(position, result),
     label    |-> reasonLabel(reason)]

\* trader.sell replies: exit() lines 136-187, then the monitor loop goes on.
\* Were the await of tradeExited (line 173) to reject, exit() would end
\* there, before the halt test and the save, and monitorPositions would
\* catch the error (line 219), as it does when saveState (line 187) throws
SellDoneStoring(t, result, stored) ==
    /\ alive /\ ~Busy
    /\ t.pc = "sell"
    /\ Exits < MaxExits
    /\ LET id  == t.snap[t.i]
           st1 == ClosedState(state, positions[id], t.idx, result)
           out == ExitOutcome(state, positions[id], t.idx, t.reason, result)
           st2 == out.state
       IN  /\ positions' = [positions EXCEPT ![id] = out.position]
           /\ \E delivered \in BOOLEAN :
                 IF AwaitSend(delivered) = "resolved"
                 THEN /\ state' = st2
                      /\ disk' = IF stored THEN Serialize(st2, positions') ELSE disk
                      /\ notified' = notified \cup {"exited"} \cup
                                     (IF shouldStopPortfolio(st2) THEN {"halt"} ELSE {})
                      /\ notifier' = SendAll(notifier,
                                        IF shouldStopPortfolio(st2)
                                        THEN <<"exited", "halt">> ELSE <<"exited">>)
                 ELSE /\ state' = st1
                      /\ disk' = disk
                      /\ notified' = notified \cup {"exited"}
                      /\ notifier' = Send(notifier, "exited")
    /\ monitors' = IF stored THEN MonitorContinue(monitors, t) ELSE MonitorCatch(monitors, t)
    /\ UNCHANGED <<signals, cachedTokens, refreshed, timersActive, alive>>

SellDone(t, result) == SellDoneStoring(t, result, TRUE)

(* ----------------------- signalTimer and enter() ---------------------- *)
\* rug: the score of enter()'s RugCheckResult, once it has one
SignalTask(pc, toks, k, size) ==
    [pc |-> pc, toks |-> toks, k |-> k, size |-> size, rug |-> None]

\* the for loop over cachedTokens.slice(0, 5) starts: index.ts 197-205
SignalStart(bag, tokens, st) ==
    IF tokens # <<>> /\ canEnter(st).allowed
    THEN With(bag, SignalTask("eval", Slice(tokens, MaxCandidates), 1, 0))
    ELSE bag

\* enter() has returned for token k: the loop takes the next token, unless
\* the list is done or canEnter breaks the loop (index.ts 200-202)
SignalContinue(bag, t, st) ==
    IF t.k < Len(t.toks) /\ canEnter(st).allowed
    THEN With(Without(bag, t), SignalTask("eval", t.toks, t.k + 1, 0))
    ELSE Without(bag, t)

\* signalTimer fires (index.ts 182-197); the token cache is stale on the
\* first cycle and when two minutes have passed. setInterval fires whether
\* or not earlier callbacks have ended: limit bounds the callbacks in flight
SignalTickUpTo(limit) ==
    /\ alive /\ timersActive /\ ~Busy
    /\ \/ /\ state.isStopped
          /\ signals' = signals
       \/ /\ ~state.isStopped
          /\ InFlight < limit
          /\ \E stale \in (IF refreshed THEN BOOLEAN ELSE {TRUE}) :
                signals' = IF stale
                           THEN With(signals, SignalTask("scan", <<>>, 0, 0))
                           ELSE SignalStart(signals, cachedTokens, state)
    /\ UNCHANGED <<state, positions, disk, monitors, cachedTokens, refreshed,
                   timersActive, alive, notified, notifier>>

SignalTick == SignalTickUpTo(MaxInFlight)

\* scanQualifyingTokens replies (it returns [] on its own errors)
ScanDone(t, tokens) ==
    /\ alive /\ ~Busy
    /\ t.pc = "scan"
    /\ cachedTokens' = tokens
    /\ refreshed' = TRUE
    /\ signals' = SignalStart(Without(signals, t), tokens, state)
    /\ UNCHANGED <<state, positions, disk, monitors, timersActive, alive, notified, notifier>>

\* sentiment.getScore and signalDetector.evaluate reply (or throw: no
\* entry); on an entry signal enter() runs up to the rug check request
EvalDone(t, isEntrySignal) ==
    /\ alive /\ ~Busy
    /\ t.pc = "eval"
    /\ signals' = IF isEntrySignal /\ canEnter(state).allowed
                  THEN With(Without(signals, t), [t EXCEPT !.pc = "rug"])
                  ELSE SignalContinue(signals, t, state)
    /\ UNCHANGED <<state, positions, disk, monitors, cachedTokens, refreshed,
                   timersActive, alive, notified, notifier>>

\* RugChecker.check with its catch block returning a negative verdict
checkFailClosed(reply) ==
    IF ~reply.ok
    THEN [safe |-> FALSE, score |-> -1]
    ELSE LET score == IF reply.score = None THEN 999 ELSE reply.score[1]
         IN  [safe  |-> ~(\/ score > MAX_SAFE_SCORE
                          \/ reply.critical
                          \/ reply.dangers >= 2),
              score |-> score]

\* RugChecker.check once axios.get has settled (rugcheck.ts 58-105): the
\* verdict on a report, and "unknown, passed" with score -1 when the request
\* failed
check(reply) ==
    IF ~reply.ok
    THEN [safe |-> TRUE, score |-> -1]
    ELSE LET score == IF reply.score = None THEN 999 ELSE reply.score[1]
         IN  [safe  |-> ~(\/ score > MAX_SAFE_SCORE
                          \/ reply.critical
                          \/ reply.dangers >= 2),
              score |-> score]

\* rugChecker.check replies: enter() lines 50-74
RugDone(t, reply) ==
    /\ alive /\ ~Busy
    /\ t.pc = "rug"
    /\ LET rug == check(reply)
           positionSizeSol == calcPositionSize(state.capitalSol)
       IN  IF ~rug.safe
           THEN /\ signals' = SignalContinue(signals, t, state)
                /\ notified' = notified
                /\ notifier' = Send(notifier, "rejected")
           ELSE IF positionSizeSol < DustThresholdSol
           THEN /\ signals' = SignalContinue(signals, t, state)
                /\ notified' = notified
                /\ notifier' = notifier
           ELSE /\ signals' = With(Without(signals, t),
                                   [t EXCEPT !.pc = "buy", !.size = positionSizeSol,
                                             !.rug = Some(rug.score)])
                /\ notified' = notified
                /\ notifier' = notifier
    /\ UNCHANGED <<state, positions, disk, monitors, cachedTokens, refreshed,
                   timersActive, alive>>

\* lines 97-98: the ledger after the entry
EnteredState(st, id, positionSizeSol) ==
    [st EXCEPT !.openPositions = Append(@, id),
               !.capitalSol    = @ - positionSizeSol]

\* enter() debiting the capital before it looks at the buy's result
BuyDoneDebitsFirst(t, result) ==
    /\ alive /\ ~Busy
    /\ t.pc = "buy"
    /\ IF ~result.success
       THEN /\ state' = [state EXCEPT !.capitalSol = @ - t.size]
            /\ disk' = Serialize(state', positions)
            /\ signals' = SignalContinue(signals, t, state')
            /\ notified' = notified
            /\ notifier' = Send(notifier, "error")
            /\ UNCHANGED positions
       ELSE /\ Created < MaxCreated
            /\ LET id  == NextId
                   st1 == EnteredState(state, id, t.size)
               IN  /\ positions' = positions @@
                          (id :> NewPosition(id, t.toks[t.k], t.size, result.outputAmount))
                   /\ state' = st1
                   /\ disk' = Serialize(st1, positions')
                   /\ signals' = SignalContinue(signals, t, st1)
                   /\ notified' = notified \cup {"entered"}
                   /\ notifier' = Send(notifier, "entered")
    /\ UNCHANGED <<monitors, cachedTokens, refreshed, timersActive, alive>>

\* trader.buy replies: enter() lines 75-121, then the signal loop goes on;
\* limit bounds the entries of a run
BuyDoneUpTo(t, result, limit) ==
    /\ alive /\ ~Busy
    /\ t.pc = "buy"
    /\ IF ~result.success
       THEN /\ signals' = SignalContinue(signals, t, state)
            /\ notified' = notified
            /\ notifier' = Send(notifier, "error")
            /\ UNCHANGED <<state, positions, disk>>
       ELSE /\ Created < limit
            /\ LET id  == NextId
                   st1 == EnteredState(state, id, t.size)
               IN  /\ positions' = positions @@
                          (id :> NewPosition(id, t.toks[t.k], t.size, result.outputAmount))
                   /\ state' = st1
                   /\ disk' = Serialize(st1, positions')
                   /\ signals' = SignalContinue(signals, t, st1)
                   /\ notified' = notified \cup {"entered"}
                   /\ notifier' = Send(notifier, "entered")
    /\ UNCHANGED <<monitors, cachedTokens, refreshed, timersActive, alive>>

BuyDone(t, result) == BuyDoneUpTo(t, result, MaxCreated)

(* ------------------------ heartbeat and shutdown ---------------------- *)
\* shutdown(reason), index.ts 252-262: the intervals are cleared, the state
\* is saved with isRunning false, and process.exit runs once botStopped()
\* has settled, which it has when send() returns; the calls in flight end
\* with the process
\* shutdown() without its assignment to isRunning
ShutdownStateStillRunning(st) == st

ShutdownState(st) == [st EXCEPT !.isRunning = FALSE]

Shutdown ==
    /\ alive /\ ~Busy
    /\ state' = ShutdownState(state)
    /\ disk' = Serialize(state', positions)
    /\ timersActive' = FALSE
    /\ alive' = FALSE
    /\ notified' = notified \cup {"stopped"}
    /\ notifier' = Send(notifier, "stopped")
    /\ monitors' = EmptyBag
    /\ signals' = EmptyBag
    /\ UNCHANGED <<positions, cachedTokens, refreshed>>

\* heartbeatTimer fires (index.ts 221-231). Were the await of
\* portfolioStop (line 228) to reject, the callback would end there, with
\* isStopped set and shutdown() not called
HeartbeatTick ==
    /\ alive /\ timersActive /\ ~Busy
    /\ IF shouldStopPortfolio(state)
       THEN \E delivered \in BOOLEAN :
              IF AwaitSend(delivered) = "resolved"
              THEN /\ state' = ShutdownState([state EXCEPT !.isStopped = TRUE])
                   /\ disk' = Serialize(state', positions)
                   /\ timersActive' = FALSE
                   /\ alive' = FALSE
                   /\ notified' = notified \cup {"halt", "stopped"}
                   /\ notifier' = SendAll(notifier, <<"halt", "stopped">>)
                   /\ monitors' = EmptyBag
                   /\ signals' = EmptyBag
              ELSE /\ state' = [state EXCEPT !.isStopped = TRUE]
                   /\ notified' = notified \cup {"halt"}
                   /\ notifier' = Send(notifier, "halt")
                   /\ UNCHANGED <<disk, timersActive, alive, monitors, signals>>
       ELSE UNCHANGED <<state, disk, timersActive, alive, notified, notifier,
                         monitors, signals>>
    /\ UNCHANGED <<positions, cachedTokens, refreshed>>

\* marketTimer fires (index.ts 237-247): it returns at once when the bot is
\* halted or no token is cached, and otherwise counts its ticks and writes
\* every 30th observation to trading.md; it touches nothing of the ledger
MarketTick ==
    /\ alive /\ timersActive /\ ~Busy
    /\ UNCHANGED vars

\* main() of a new process (index.ts 150-162 and the timers it sets): the
\* PositionManager is constructed from state.json, isRunning is set and the
\* state is saved
Main ==
    /\ ~alive
    /\ positions' = LoadedObjects(disk)
    /\ state' = [loadState(disk, initialCapitalSol) EXCEPT !.isRunning = TRUE]
    /\ disk' = Serialize(state', positions')
    /\ monitors' = EmptyBag
    /\ signals' = EmptyBag
    /\ cachedTokens' = <<>>
    /\ refreshed' = FALSE
    /\ timersActive' = TRUE
    /\ alive' = TRUE
    /\ notified' = {}
    /\ notifier' = Send(NewNotifier(notifier.enabled), "started")

\* the Telegram request of flush loop l settles (notifier.ts 50-59): on
\* success the loop goes on to sleep(300); on failure the catch block logs
\* and the loop is at its while test again
PostDone(l, ok) ==
    /\ alive /\ ~Busy
    /\ BagIn(l, notifier.loops)
    /\ l.pc = "post"
    /\ notifier' =
          IF ok
          THEN [notifier EXCEPT
                   !.loops = (@ (-) SetToBag({l})) (+) SetToBag({[l EXCEPT !.pc = "sleep"]})]
          ELSE FlushStep([notifier EXCEPT !.loops = @ (-) SetToBag({l})])
    /\ UNCHANGED <<state, positions, disk, monitors, signals, cachedTokens, refreshed,
                   timersActive, alive, notified>>

\* sleep(300) of flush loop l ends: the loop is at its while test
SleepDone(l) ==
    /\ alive /\ ~Busy
    /\ BagIn(l, notifier.loops)
    /\ l.pc = "sleep"
    /\ notifier' = FlushStep([notifier EXCEPT !.loops = @ (-) SetToBag({l})])
    /\ UNCHANGED <<state, positions, disk, monitors, signals, cachedTokens, refreshed,
                   timersActive, alive, notified>>

(* --------------------------- specification ---------------------------- *)
Next ==
    \/ MonitorTick
    \/ \E t \in BagToSet(monitors) : \E reply \in PriceReplies : PriceDone(t, reply)
    \/ \E t \in BagToSet(monitors) : ExitCall(t)
    \/ \E t \in BagToSet(monitors) : \E result \in SellResults : SellDone(t, result)
    \/ SignalTick
    \/ \E t \in BagToSet(signals) : \E tokens \in ScanResults : ScanDone(t, tokens)
    \/ \E t \in BagToSet(signals) : \E isEntrySignal \in BOOLEAN : EvalDone(t, isEntrySignal)
    \/ \E t \in BagToSet(signals) : \E reply \in RugReplies : RugDone(t, reply)
    \/ \E t \in BagToSet(signals) : \E result \in BuyResults : BuyDone(t, result)
    \/ HeartbeatTick
    \/ MarketTick
    \/ Shutdown

Spec == Init /\ [][Next]_vars

\* the runs in which only the signal timer fires, started with two positions
\* open
NextSignals ==
    \/ SignalTick
    \/ \E t \in BagToSet(signals) : \E tokens \in ScanResults : ScanDone(t, tokens)
    \/ \E t \in BagToSet(signals) : \E isEntrySignal \in BOOLEAN : EvalDone(t, isEntrySignal)
    \/ \E t \in BagToSet(signals) : \E reply \in RugReplies : RugDone(t, reply)
    \/ \E t \in BagToSet(signals) : \E result \in BuyResults : BuyDone(t, result)

SpecSignals == InitTwoOpen /\ [][NextSignals]_vars

\* the same runs started on ledgers whose free capital differs (loadState
\* takes capitalSol from the file as it is): 0.005, 0.0094, 0.0097, 0.6804
\* and 0.84 SOL
EntryCapitals == {5000, 9400, 9700, 680400, 840000}
EntryFiles == {[TwoOpenFile EXCEPT !.capitalSol = c] : c \in EntryCapitals}
InitEntry == InitFrom(EntryFiles)

SpecEnter == InitEntry /\ [][NextSignals]_vars

\* the same runs started on ledgers that differ in what canEnter reads: zero
\* to three open positions, the halted flag, and a cumulative PnL of zero,
\* just above, at and below the threshold (loadState takes all of them from
\* the file as they are), with much or little free capital
AdmissionFile(n, halted, pnl, capital) ==
    [exists          |-> TRUE,
     capitalSol      |-> capital,
     openPositions   |-> SubSeq(<< NewPosition(-1, TokenA, 84000, 1000),
                                   NewPosition(-2, TokenB, 75600, 1000),
                                   NewPosition(-3, TokenC, 68000, 1000) >>, 1, n),
     closedPositions |-> <<>>,
     totalPnlSol     |-> pnl,
     isRunning       |-> FALSE,
     isStopped       |-> halted]
AdmissionFiles ==
    {AdmissionFile(n, halted, pnl, capital) :
        n \in 0..maxPositions, halted \in BOOLEAN,
        pnl \in {0, -339900, -340000, -340100}, capital \in {5000, 612400}}
InitAdmission == InitFrom(AdmissionFiles)

SpecAdmission == InitAdmission /\ [][NextSignals]_vars

\* the runs in which the signal timer keeps firing while earlier cycles
\* wait for their rug check or their buy, started with 0.0097 SOL free and
\* nothing open
LowCapitalFile == [NoFile EXCEPT !.exists = TRUE, !.capitalSol = 9700]
InitLowCapital == InitFrom({LowCapitalFile})
OverlapRugReplies == {RugReport(<<500>>, FALSE, 0), RugReport(<<501>>, FALSE, 0)}
OverlapScans == {<<TokenA>>}
NextOverlap ==
    \/ SignalTickUpTo(MaxOverlap)
    \/ \E t \in BagToSet(signals) : \E tokens \in OverlapScans : ScanDone(t, tokens)
    \/ \E t \in BagToSet(signals) : \E isEntrySignal \in BOOLEAN : EvalDone(t, isEntrySignal)
    \/ \E t \in BagToSet(signals) : \E reply \in OverlapRugReplies : RugDone(t, reply)
    \/ \E t \in BagToSet(signals) : \E result \in BuyResults :
           BuyDoneUpTo(t, result, MaxOverlap)

SpecOverlap == InitLowCapital /\ [][NextOverlap]_vars

\* the runs in which only the monitor timer fires, started with the two
\* positions of ScenarioFile open; the prices are 1.00, 1.10, 1.20, 1.32 and
\* 1.60, zero, or none
ScenarioReplies == {PriceUnavailable} \cup
                   {[ok |-> TRUE, value |-> v] : v \in {0, 1000, 1100, 1200, 1320, 1600}}
InitScenario == InitFrom({ScenarioFile})
NextMonitor ==
    \/ MonitorTick
    \/ \E t \in BagToSet(monitors) : \E reply \in ScenarioReplies : PriceDone(t, reply)
    \/ \E t \in BagToSet(monitors) : ExitCall(t)
    \/ \E t \in BagToSet(monitors) : \E result \in SellResults : SellDone(t, result)

SpecMonitor == InitScenario /\ [][NextMonitor]_vars

\* the monitor runs of the two-position scenario with Telegram configured:
\* the exits and the shutdown send notifications while the flush loop
\* delivers them, or fails to
InitNotifier == InitWith({ScenarioFile}, TRUE)
NextNotifier ==
    \/ MonitorTick
    \/ \E t \in BagToSet(monitors) : \E reply \in ScenarioReplies : PriceDone(t, reply)
    \/ \E t \in BagToSet(monitors) : ExitCall(t)
    \/ \E t \in BagToSet(monitors) : \E result \in SellResults : SellDone(t, result)
    \/ Shutdown
    \/ \E l \in BagToSet(notifier.loops) : \E ok \in BOOLEAN : PostDone(l, ok)
    \/ \E l \in BagToSet(notifier.loops) : SleepDone(l)

SpecNotifier == InitNotifier /\ [][NextNotifier]_vars

\* a Telegram request settles within its 5 s timeout, a sleep ends, and
\* the synchronous start of exit() is not held up
SpecNotifierFair ==
    /\ SpecNotifier
    /\ WF_vars(\E t \in BagToSet(monitors) : ExitCall(t))
    /\ WF_vars(\E l \in BagToSet(notifier.loops) : \E ok \in BOOLEAN : PostDone(l, ok))
    /\ WF_vars(\E l \in BagToSet(notifier.loops) : SleepDone(l))

\* the monitor runs of the two-position scenario in which a write of
\* state.json may throw
NextFaulty ==
    \/ MonitorTick
    \/ \E t \in BagToSet(monitors) : \E reply \in ScenarioReplies : \E stored \in BOOLEAN :
           PriceDoneStoring(t, reply, stored)
    \/ \E t \in BagToSet(monitors) : ExitCall(t)
    \/ \E t \in BagToSet(monitors) : \E result \in SellResults : \E stored \in BOOLEAN :
           SellDoneStoring(t, result, stored)

SpecFaulty == InitScenario /\ [][NextFaulty]_vars

\* the two-position scenario after losses of 0.33 SOL: a failed sell of
\* either position takes the cumulative PnL to the portfolio stop. The
\* monitor and the heartbeat run; the replies arrive and the heartbeat
\* keeps firing
LossScenarioFile ==
    [ScenarioFile EXCEPT !.totalPnlSol = -330000, !.capitalSol = 350400]
InitLossScenario == InitFrom({LossScenarioFile})
NextHalt ==
    \/ MonitorTick
    \/ \E t \in BagToSet(monitors) : \E reply \in ScenarioReplies : PriceDone(t, reply)
    \/ \E t \in BagToSet(monitors) : ExitCall(t)
    \/ \E t \in BagToSet(monitors) : \E result \in SellResults : SellDone(t, result)
    \/ HeartbeatTick

SpecHaltFair ==
    /\ InitLossScenario /\ [][NextHalt]_vars
    /\ WF_vars(HeartbeatTick)
    /\ WF_vars(\E t \in BagToSet(monitors) : \E reply \in ScenarioReplies : PriceDone(t, reply))
    /\ WF_vars(\E t \in BagToSet(monitors) : ExitCall(t))
    /\ WF_vars(\E t \in BagToSet(monitors) : \E result \in SellResults : SellDone(t, result))

\* a Position record as a version of the bot without the trailing stop
\* wrote it: no highestPrice
Legacy(p) == [f \in DOMAIN p \ {"highestPrice"} |-> p[f]]

\* state.json files left by earlier runs: by the old version (no record has
\* highestPrice), and by the old version and then the present one (the
\* second open position has a ratcheted stop, the closed records are one of
\* each kind)
LegacyFiles ==
    {[ScenarioFile EXCEPT
        !.openPositions   = << Legacy(NewPosition(-1, TokenC, 84000, 1000)),
                               Legacy(NewPosition(-2, TokenD, 75600, 1000)) >>,
        !.closedPositions = << Legacy(EarlierClosed(-11, TokenA, 84000, 90000)) >>,
        !.totalPnlSol     = 6000],
     [ScenarioFile EXCEPT
        !.openPositions   = << Legacy(NewPosition(-1, TokenC, 84000, 1000)),
                               [NewPosition(-2, TokenD, 75600, 1000) EXCEPT
                                   !.highestPrice = 1320, !.stopLoss = 1122] >>,
        !.closedPositions = << Legacy(EarlierClosed(-11, TokenA, 84000, 90000)),
                               EarlierClosed(-12, TokenB, 75600, 75600) >>,
        !.totalPnlSol     = 6000]}

\* no process is running and state.json is one of these files
InitStopped ==
    /\ disk \in LegacyFiles
    /\ positions = <<>>
    /\ state = loadState(NoFile, initialCapitalSol)
    /\ monitors = EmptyBag
    /\ signals = EmptyBag
    /\ cachedTokens = <<>>
    /\ refreshed = FALSE
    /\ timersActive = FALSE
    /\ alive = FALSE
    /\ notified = {}
    /\ notifier = NewNotifier(FALSE)

\* the process is started, monitors its positions, is shut down and started
\* again
NextRestore ==
    \/ Main
    \/ MonitorTick
    \/ \E t \in BagToSet(monitors) : \E reply \in ScenarioReplies : PriceDone(t, reply)
    \/ \E t \in BagToSet(monitors) : ExitCall(t)
    \/ \E t \in BagToSet(monitors) : \E result \in SellResults : SellDone(t, result)
    \/ Shutdown

SpecRestore == InitStopped /\ [][NextRestore]_vars

(* ------------------------------- claims ------------------------------- *)
OpenIds   == {state.openPositions[j] : j \in 1..Len(state.openPositions)}
ClosedIds == {state.closedPositions[j] : j \in 1..Len(state.closedPositions)}

\* C1: the stop-loss of a position never decreases while the position is
\* open, over any monitor passes and prices, and it is never below
\* entryPrice * (1 - stopLossPct)
C1_StopLossRatchets ==
    /\ [](\A id \in DOMAIN positions :
            positions[id].stopLoss >= calcStopLoss(positions[id].entryPrice))
    /\ [][\A id \in DOMAIN positions :
            positions[id].status = "open" =>
                positions'[id].stopLoss >= positions[id].stopLoss]_vars

\* an open position whose stop has been raised above its initial level, with
\* a monitor pass about to look at it again
C1_Witness ==
    \E t \in BagToSet(monitors) :
        /\ t.pc = "price"
        /\ positions[t.snap[t.i]].status = "open"
        /\ positions[t.snap[t.i]].stopLoss > calcStopLoss(positions[t.snap[t.i]].entryPrice)

\* C2: in every reachable state every position has stopLoss < takeProfit,
\* whatever prices the monitor has seen
C2_StopBelowTarget ==
    \A id \in DOMAIN positions : positions[id].stopLoss < positions[id].takeProfit

\* C3: the number of open positions never exceeds maxPositions
C3_OpenWithinCap == Len(state.openPositions) <= maxPositions

\* C4: once isStopped is true, no position is added to openPositions
C4_NoEntryAfterHalt ==
    [][state.isStopped =>
          \A j \in 1..Len(state'.openPositions) : state'.openPositions[j] \in OpenIds]_vars

\* a monitor pass starts on a tick of monitorTimer
MonitorStarts == MonitorTick /\ monitors' # monitors

C6_HaltedSticky ==
    /\ \A file \in PersistedFiles \cup {TwoOpenFile} :
           (file.exists /\ file.isStopped) => loadState(file, initialCapitalSol).isStopped
    /\ [][state.isStopped => state'.isStopped]_vars

\* halted by an exit of this run, and a later exit has brought the realized
\* loss back above the stop line
C6_Witness ==
    /\ state.isStopped /\ "halt" \in notified
    /\ state.totalPnlSol > -portfolioStopLossSol

\* C7: exit() called with an id that is not in openPositions requests no
\* sell, changes no field of the ledger or of a position, writes nothing and
\* notifies nothing
C7_ExitOfUnknownIdIsNoOp ==
    [][(\E t \in BagToSet(monitors) : t.pc = "exit" /\ t.snap[t.i] \notin OpenIds) =>
          /\ state' = state
          /\ positions' = positions
          /\ disk' = disk
          /\ notified' = notified
          /\ \A u \in BagToSet(monitors') :
                 u.pc = "sell" => CopiesIn(u, monitors') <= CopiesIn(u, monitors)]_vars

\* exit() is called for a position an earlier exit() has already closed
C7_Witness ==
    \E t \in BagToSet(monitors) :
        /\ t.pc = "exit"
        /\ t.snap[t.i] \notin OpenIds
        /\ t.snap[t.i] \in ClosedIds
        /\ state.openPositions # <<>>

\* no position has been exited twice
NoIdClosedTwice ==
    \A j, k \in 1..Len(state.closedPositions) :
        state.closedPositions[j] = state.closedPositions[k] => j = k

\* C8: every position is in exactly one of openPositions and
\* closedPositions, and every member of openPositions has status open; stated
\* for the runs in which the exits in flight are for different positions, so
\* that no id is closed twice
C8_ExactlyOneCollection ==
    NoIdClosedTwice =>
        /\ \A id \in DOMAIN positions : (id \in OpenIds) # (id \in ClosedIds)
        /\ \A id \in OpenIds : positions[id].status = "open"

\* C9: capitalSol plus the entry amounts of the open positions equals the
\* initial capital plus totalPnlSol
C9_CapitalConserved ==
    state.capitalSol
      + SumSeq([j \in 1..Len(state.openPositions) |->
                   positions[state.openPositions[j]].entryAmount])
    = initialCapitalSol + state.totalPnlSol

\* C10: totalPnlSol is the sum of pnlSol over closedPositions, and
\* closedPositions holds no id twice
C10_PnlIsSumOfClosed ==
    /\ state.totalPnlSol =
           SumSeq([j \in 1..Len(state.closedPositions) |->
                      positions[state.closedPositions[j]].pnlSol[1]])
    /\ \A j, k \in 1..Len(state.closedPositions) :
           state.closedPositions[j] = state.closedPositions[k] => j = k

\* the step in which the enter() of signal cycle t returns null (or the
\* token gave no entry signal), and the loop goes on
EnterReturnsNull(t) ==
    /\ t.pc \in {"eval", "rug", "buy"}
    /\ alive'
    /\ signals' = SignalContinue(signals, t, state)
    /\ DOMAIN positions' = DOMAIN positions

\* C11: a call of enter() that returns no position (admission denied, token
\* judged unsafe, size under the dust threshold, buy failed) leaves the
\* capital, the open and closed collections, the cumulative PnL and the
\* halted flag as they were, on the heap and on disk.
C11_FailedEnterLeavesLedger ==
    [][\A t \in BagToSet(signals) :
          EnterReturnsNull(t) =>
              /\ state' = state
              /\ positions' = positions
              /\ disk' = disk]_vars

\* the enter() of a second token is waiting for the rug check with a capital
\* whose tenth is dust: it will return null whatever the check says
C11_Witness ==
    \E t \in BagToSet(signals) :
        /\ t.pc = "rug" /\ t.k = 2
        /\ calcPositionSize(state.capitalSol) < DustThresholdSol

\* the number of enter() calls waiting for trader.buy
BuysInFlight(bag) ==
    BagCardinality([t \in {u \in BagToSet(bag) : u.pc = "buy"} |-> CopiesIn(t, bag)])

\* a report was obtained and it is a rejection: score above 500 (a missing
\* score counts as 999), a critical danger risk, or two danger risks
NegativeVerdict(reply) ==
    /\ reply.ok
    /\ \/ reply.score = None
       \/ reply.score # None /\ reply.score[1] > 500
       \/ reply.critical
       \/ reply.dangers >= 2

C13_ExitEndsClosed ==
    [][\A t \in BagToSet(monitors) : \A result \in SellResults :
          SellDone(t, result) =>
              LET id == t.snap[t.i]
                  p  == positions[id]
                  q  == positions'[id]
              IN  /\ q.status = "closed"
                  /\ id \in ClosedIds'
                  /\ id \notin OpenIds'
                  /\ ~result.success =>
                        /\ q.pnlSol = Some(-((15 * p.entryAmount) \div 100))
                        /\ q.exitPrice = Some(p.stopLoss)
                        /\ state'.capitalSol =
                               state.capitalSol + (85 * p.entryAmount) \div 100]_vars

\* the part of it that holds on every step: the position is marked closed
\* and appended to the closed sequence, with the valuation of a failed sell
ExitFallbackValuation ==
    [][\A t \in BagToSet(monitors) : \A result \in SellResults :
          SellDone(t, result) =>
              LET id == t.snap[t.i]
                  p  == positions[id]
                  q  == positions'[id]
              IN  /\ q.status = "closed"
                  /\ id \in ClosedIds'
                  /\ ~result.success =>
                        /\ q.pnlSol = Some(-((15 * p.entryAmount) \div 100))
                        /\ q.exitPrice = Some(p.stopLoss)
                        /\ state'.capitalSol =
                               state.capitalSol + (85 * p.entryAmount) \div 100]_vars

\* C14: once an exit() of this run has closed a position and completed,
\* a cumulative PnL at or below -portfolioStopLossSol (exactly equal
\* included) comes with halted set and the portfolio-halt notification made.
C14_HaltAfterClose ==
    ("exited" \in notified /\ state.totalPnlSol <= -portfolioStopLossSol)
        => (state.isStopped /\ "halt" \in notified)

\* an exit of this run brought the cumulative PnL to the threshold exactly,
\* and the process is still running
C14_Witness ==
    /\ alive
    /\ "exited" \in notified
    /\ state.totalPnlSol = -portfolioStopLossSol
    /\ state.isStopped /\ "halt" \in notified

\* C15: wherever an operation is suspended or another callback can run,
\* state.json holds the ledger as it is in memory: every entry, exit, stop
\* ratchet and halt is written in the step that makes it.
C15_DiskEqualsMemory == disk = Serialize(state, positions)

\* this run has entered, ratcheted a stop, exited and halted, and a callback
\* is suspended on a request
C15_Witness ==
    /\ alive /\ InFlight > 0
    /\ {"entered", "exited", "halt"} \subseteq notified
    /\ state.isStopped
    /\ \E id \in OpenIds :
          /\ id > 0
          /\ positions[id].stopLoss > calcStopLoss(positions[id].entryPrice)

\* C16: a position is created with highestPrice equal to its entryPrice,
\* and no step lowers the highestPrice of any position, whatever prices the
\* monitor passes receive.
C16_HighestPriceNeverDecreases ==
    [][/\ \A id \in DOMAIN positions :
             positions'[id].highestPrice >= positions[id].highestPrice
       /\ \A id \in DOMAIN positions' \ DOMAIN positions :
             positions'[id].highestPrice = positions'[id].entryPrice]_vars

\* a position created in this run has seen a price above its entry, and a
\* monitor pass is waiting for its next price
C16_Witness ==
    \E t \in BagToSet(monitors) :
        /\ t.pc = "price"
        /\ t.snap[t.i] > 0
        /\ positions[t.snap[t.i]].highestPrice > positions[t.snap[t.i]].entryPrice

\* what monitorPositions does with the outcome of checkExit for pass t: on
\* hold the loop goes on, otherwise exit() is called with that reason
Outcome(t, verdict) ==
    monitors' = IF verdict = "hold"
                THEN MonitorContinue(monitors, t)
                ELSE With(Without(monitors, t), [t EXCEPT !.pc = "exit", !.reason = verdict])

\* C17: for every position and price that reaches checkExit, the outcome is
\* take_profit when price >= takeProfit (also when price <= stopLoss),
\* otherwise stop_loss when price <= stopLoss, otherwise hold.
C17_TakeProfitPrecedence ==
    [][\A t \in BagToSet(monitors) : \A reply \in ScenarioReplies :
          (PriceDone(t, reply) /\ reply.ok /\ reply.value # 0) =>
              LET q == positions'[t.snap[t.i]]
              IN  /\ reply.value >= q.takeProfit => Outcome(t, "take_profit")
                  /\ (reply.value < q.takeProfit /\ reply.value <= q.stopLoss)
                        => Outcome(t, "stop_loss")
                  /\ (reply.value < q.takeProfit /\ reply.value > q.stopLoss)
                        => Outcome(t, "hold")]_vars

\* a pass is waiting for the price of a position whose stop (1360) is above
\* its target (1300); the price 1320 is at once above the target and under
\* the stop, and the step that receives it calls exit() with take_profit
C17_Witness ==
    \E t \in BagToSet(monitors) :
        /\ t.pc = "price"
        /\ positions[t.snap[t.i]].takeProfit <= 1320
        /\ positions[t.snap[t.i]].stopLoss >= 1320
        /\ ENABLED (/\ PriceDone(t, [ok |-> TRUE, value |-> 1320])
                    /\ Outcome(t, "take_profit"))

\* C18: on every price that reaches updateTrailingStop: a price not above
\* highestPrice changes nothing and returns false; a higher one becomes
\* highestPrice and the stop becomes max(price * 0.85, entryPrice * 0.85)
\* only if that is above the current stop, true being returned exactly when
\* the stop changed. For an entry at 1.00: 1.20 gives the stop 1.02, then
\* 1.10 leaves it and holds, then 1.00 is a stop_loss.
C18_TrailingStopRatchet ==
    [][\A t \in BagToSet(monitors) : \A reply \in ScenarioReplies :
          (PriceDone(t, reply) /\ reply.ok /\ reply.value # 0) =>
              LET p == positions[t.snap[t.i]]
                  q == positions'[t.snap[t.i]]
                  v == reply.value
                  target == Max((v * (100 - stopLossPct)) \div 100,
                                (p.entryPrice * (100 - stopLossPct)) \div 100)
              IN  /\ v <= p.highestPrice =>
                        (q = p /\ ~updateTrailingStop(p, v))
                  /\ v > p.highestPrice =>
                        /\ q.highestPrice = v
                        /\ q.stopLoss = IF target > p.stopLoss THEN target ELSE p.stopLoss
                        /\ q = [p EXCEPT !.highestPrice = q.highestPrice,
                                         !.stopLoss = q.stopLoss]
                        /\ updateTrailingStop(p, v) <=> (q.stopLoss # p.stopLoss)
                  /\ (p.entryPrice = 1000 /\ p.highestPrice = 1000 /\ v = 1200)
                        => q.stopLoss = 1020
                  /\ (p.entryPrice = 1000 /\ p.stopLoss = 1020 /\ v = 1100)
                        => (q.stopLoss = 1020 /\ Outcome(t, "hold"))
                  /\ (p.entryPrice = 1000 /\ p.stopLoss = 1020 /\ v = 1000)
                        => (q.stopLoss = 1020 /\ Outcome(t, "stop_loss"))]_vars

\* the position entered at 1.00 has seen 1.20 (stop 1.02) and then 1.00:
\* exit() has been called for it with stop_loss
C18_Witness ==
    \E t \in BagToSet(monitors) :
        /\ t.pc \in {"exit", "sell"}
        /\ t.reason = "stop_loss"
        /\ positions[t.snap[t.i]].entryPrice = 1000
        /\ positions[t.snap[t.i]].highestPrice = 1200
        /\ positions[t.snap[t.i]].stopLoss = 1020

\* C19: canEnter allows exactly when the ledger is not halted, fewer than
\* maxPositions positions are open and the cumulative PnL is above
\* -portfolioStopLossSol; with maxPositions (3) positions open and the ledger
\* not halted the denial carries the capacity reason whatever the capital
\* and the PnL are; and the steps that evaluate canEnter (every step of a
\* signal cycle but a successful buy) leave the ledger as it was.
C19_CanEnterExactly ==
    /\ [](/\ canEnter(state).allowed <=>
                (/\ ~state.isStopped
                 /\ Len(state.openPositions) < maxPositions
                 /\ state.totalPnlSol > -portfolioStopLossSol)
          /\ (~state.isStopped /\ Len(state.openPositions) >= maxPositions) =>
                (~canEnter(state).allowed /\ canEnter(state).reason = "capacity"))
    /\ [][DOMAIN positions' = DOMAIN positions =>
              (state' = state /\ positions' = positions /\ disk' = disk)]_vars

\* three positions are open, the ledger is not halted although the loss is
\* at the threshold, and the signal timer has scanned and started no cycle
C19_Witness ==
    /\ Len(state.openPositions) = maxPositions
    /\ ~state.isStopped
    /\ state.totalPnlSol <= -portfolioStopLossSol
    /\ refreshed /\ cachedTokens # <<>> /\ signals = EmptyBag

\* C20: the size enter() computes is the capital times maxPositionSizePct
\* (10%) rounded to 4 decimals of a SOL (a multiple of 100 micro-SOL within
\* 50 of the exact product); a size under 0.001 SOL is rejected without a
\* buy, any other goes to the buy unless the token was rejected; a capital
\* of 0.84 gives 0.0840, which is bought, and 0.005 gives 0.0005, which is
\* rejected.
C20_SizeRoundedDustRejected ==
    [][\A t \in BagToSet(signals) : \A reply \in RugReplies :
          RugDone(t, reply) =>
              LET capital == state.capitalSol
                  size    == calcPositionSize(capital)
                  bought  == \E u \in BagToSet(signals') :
                                /\ u = [t EXCEPT !.pc = "buy", !.size = size, !.rug = u.rug]
                                /\ CopiesIn(u, signals') = CopiesIn(u, signals) + 1
              IN  /\ size % 100 = 0
                  /\ 100 * size - capital * maxPositionSizePct <= 5000
                  /\ capital * maxPositionSizePct - 100 * size <= 5000
                  /\ size < 1000 => BuysInFlight(signals') = BuysInFlight(signals)
                  /\ (size >= 1000 /\ ~NegativeVerdict(reply)) => bought
                  /\ capital = 840000 => size = 84000
                  /\ capital = 5000 => size = 500]_vars

\* with 0.84 SOL of capital enter() has requested the buy of 0.0840 SOL
C20_Witness ==
    \E t \in BagToSet(signals) :
        t.pc = "buy" /\ t.size = 84000 /\ state.capitalSol = 840000

\* the record r of state.json as the claim has it restored
RestoredRecord(r) ==
    IF "highestPrice" \in DOMAIN r THEN r
    ELSE [f \in DOMAIN r \cup {"highestPrice"} |->
             IF f = "highestPrice" THEN r.entryPrice ELSE r[f]]

\* the ledger fields are those of the file, the arrays in the file's order
RestoredLedger ==
    /\ state'.capitalSol = disk.capitalSol
    /\ state'.totalPnlSol = disk.totalPnlSol
    /\ state'.isStopped = disk.isStopped
    /\ state'.openPositions =
          [j \in 1..Len(disk.openPositions) |-> disk.openPositions[j].id]
    /\ state'.closedPositions =
          [j \in 1..Len(disk.closedPositions) |-> disk.closedPositions[j].id]

\* C21 (as stated): when the ledger is restored, every position record of
\* the file that has no highestPrice, open or closed, gets highestPrice =
\* entryPrice, and every other field is as persisted.
C21_RestoreDefaultsEveryRecord ==
    [][Main =>
          /\ RestoredLedger
          /\ \A j \in 1..Len(disk.openPositions) :
                positions'[disk.openPositions[j].id] = RestoredRecord(disk.openPositions[j])
          /\ \A j \in 1..Len(disk.closedPositions) :
                positions'[disk.closedPositions[j].id] = RestoredRecord(disk.closedPositions[j])]_vars

\* C21 (amended): when the ledger is restored, every open position record
\* that has no highestPrice gets highestPrice = entryPrice; closed records
\* are restored as they are, without the field if they lack it; every other
\* field is as persisted.
C21_RestoreDefaultsOpenRecords ==
    [][Main =>
          /\ RestoredLedger
          /\ \A j \in 1..Len(disk.openPositions) :
                positions'[disk.openPositions[j].id] = RestoredRecord(disk.openPositions[j])
          /\ \A j \in 1..Len(disk.closedPositions) :
                \/ positions'[disk.closedPositions[j].id] = disk.closedPositions[j]
                \/ \E k \in 1..Len(disk.openPositions) :
                      disk.openPositions[k].id = disk.closedPositions[j].id]_vars

\* a process has just been started on a file of the old version: the open
\* record of token C has highestPrice = entryPrice, the old closed record
\* has no highestPrice
C21_Witness ==
    /\ alive /\ notified = {} /\ monitors = EmptyBag
    /\ \E id \in OpenIds :
          /\ positions[id].tokenAddress = "C"
          /\ positions[id].highestPrice = positions[id].entryPrice
    /\ \E id \in ClosedIds : "highestPrice" \notin DOMAIN positions[id]

\* C22: once shutdown has run, the four timers are cleared and none of
\* monitorTimer, signalTimer, heartbeatTimer and marketTimer can fire again,
\* no callback is left in flight, and the state saved last, which is the
\* state in memory, has isRunning false.
C22_ShutdownStopsActivities ==
    ~alive =>
        /\ ~timersActive
        /\ ~ENABLED MonitorTick
        /\ ~ENABLED SignalTick
        /\ ~ENABLED HeartbeatTick
        /\ ~ENABLED MarketTick
        /\ monitors = EmptyBag /\ signals = EmptyBag
        /\ ~state.isRunning
        /\ disk = Serialize(state, positions)
        /\ ~disk.isRunning

\* the process has been shut down with positions open, tokens cached and the
\* ledger not halted: every timer had work to do
C22_Witness ==
    /\ ~alive
    /\ "stopped" \in notified
    /\ ~state.isStopped
    /\ state.openPositions # <<>>
    /\ cachedTokens # <<>>

\* an exit() is suspended on trader.sell, or an enter() on rugChecker.check
\* or trader.buy
EnterOrExitSuspended ==
    \/ \E t \in BagToSet(monitors) : t.pc = "sell"
    \/ \E t \in BagToSet(signals) : t.pc \in {"rug", "buy"}

\* C23: the process does not terminate while an enter() or an exit() is
\* suspended on an external call: a call in flight when shutdown begins
\* completes, with its ledger update and its save, before the process ends.
C23_InFlightCallsComplete ==
    [][(alive /\ ~alive') => ~EnterOrExitSuspended]_vars

C25_ClosedRecordFinal ==
    [][(alive /\ alive') =>
          \A id \in DOMAIN positions :
              positions[id].status = "closed" =>
                  /\ id \in DOMAIN positions'
                  /\ positions'[id].exitPrice    = positions[id].exitPrice
                  /\ positions'[id].pnlSol       = positions[id].pnlSol
                  /\ positions'[id].status       = positions[id].status
                  /\ positions'[id].stopLoss     = positions[id].stopLoss
                  /\ positions'[id].highestPrice = positions[id].highestPrice]_vars

\* C26: when the price of a position is unavailable the pass skips it: no
\* record, ledger field or file changes, no exit is driven and nothing is
\* left waiting for that position, and the pass goes on to request the
\* price of the next position of its snapshot (or ends after the last).
C26_UnavailablePriceSkipped ==
    [][\A t \in BagToSet(monitors) :
          PriceDone(t, PriceUnavailable) =>
              /\ positions' = positions
              /\ state' = state
              /\ disk' = disk
              /\ notified' = notified
              /\ monitors' = IF t.i < Len(t.snap)
                             THEN With(Without(monitors, t), MonitorTask(t.snap, t.i + 1))
                             ELSE Without(monitors, t)]_vars

\* a pass over two open positions waits for the price of the first, and
\* the unavailable reply takes it to the price request of the second
C26_Witness ==
    \E t \in BagToSet(monitors) :
        /\ t.pc = "price" /\ t.i = 1 /\ Len(t.snap) = 2
        /\ positions[t.snap[1]].status = "open"
        /\ ENABLED (PriceDone(t, PriceUnavailable) /\
                    BagIn(MonitorTask(t.snap, 2), monitors'))

\* C27: when two exit() calls for the same position overlap, the one whose
\* sell returns after the position has been closed changes nothing: the id
\* is not appended to closedPositions again, capitalSol and totalPnlSol are
\* not credited again, and no other position leaves openPositions.
C27_OverlappingExitsCloseOnce ==
    [][\A t \in BagToSet(monitors) : \A result \in SellResults :
          (SellDone(t, result) /\ positions[t.snap[t.i]].status = "closed") =>
              /\ state'.closedPositions = state.closedPositions
              /\ state'.capitalSol      = state.capitalSol
              /\ state'.totalPnlSol     = state.totalPnlSol
              /\ state'.openPositions   = state.openPositions]_vars

\* C28: for every open position whose price request returns a number, 0
\* included, the pass applies updateTrailingStop and then checkExit to it
\* and acts on the verdict; a price at or below the stop loss (and below
\* the target) makes the pass call exit() with stop_loss.
C28_EveryReturnedPriceEvaluated ==
    [][\A t \in BagToSet(monitors) : \A reply \in ScenarioReplies :
          (PriceDone(t, reply) /\ reply.ok /\ positions[t.snap[t.i]].status = "open") =>
              LET pos == positions[t.snap[t.i]]
                  q   == TrailedPosition(pos, reply.value)
              IN  /\ positions'[t.snap[t.i]] = q
                  /\ Outcome(t, checkExit(q, reply.value))
                  /\ (reply.value <= q.stopLoss /\ reply.value < q.takeProfit)
                        => Outcome(t, "stop_loss")]_vars

\* the same for the prices other than 0
NonZeroPriceEvaluated ==
    [][\A t \in BagToSet(monitors) : \A reply \in ScenarioReplies :
          (PriceDone(t, reply) /\ reply.ok /\ reply.value # 0
             /\ positions[t.snap[t.i]].status = "open") =>
              LET pos == positions[t.snap[t.i]]
                  q   == TrailedPosition(pos, reply.value)
              IN  /\ positions'[t.snap[t.i]] = q
                  /\ Outcome(t, checkExit(q, reply.value))]_vars

\* C29: the reason given to exit() does not influence the close: for the
\* ledger and the sell result of every exit step, each of stop_loss,
\* take_profit and manual gives the capital, cumulative PnL, open and closed
\* sequences, halted flag and closed record that the step produced.
C29_ReasonDoesNotAlterClose ==
    [][\A t \in BagToSet(monitors) : \A result \in SellResults :
          SellDone(t, result) =>
              \A reason \in ExitReasons :
                  LET out == ExitOutcome(state, positions[t.snap[t.i]], t.idx, reason, result)
                  IN  /\ state' = out.state
                      /\ positions'[t.snap[t.i]] = out.position]_vars

\* two exits of the same open position wait for their sells, one called
\* with take_profit and one with stop_loss
C29_Witness ==
    \E t1, t2 \in BagToSet(monitors) :
        /\ t1.pc = "sell" /\ t2.pc = "sell"
        /\ t1.reason = "take_profit" /\ t2.reason = "stop_loss"
        /\ t1.snap[t1.i] = t2.snap[t2.i]
        /\ positions[t1.snap[t1.i]].status = "open"
        /\ Exits < MaxExits

\* the positions this run's enter() has created
EnteredIds == {id \in DOMAIN positions : id >= 1}

\* C30: every open position created by enter() has its stop loss at
\* highestPrice * (1 - stopLossPct) in every reachable state; and a monitor
\* step changes the highestPrice of such a position exactly when
\* updateTrailingStop returns true, in which case the step saves the state.
C30_StopTracksHighestPrice ==
    /\ [](\A id \in EnteredIds :
             positions[id].status = "open" =>
                 positions[id].stopLoss * 100
                     = positions[id].highestPrice * (100 - stopLossPct))
    /\ [][\A t \in BagToSet(monitors) : \A reply \in PriceReplies :
             (/\ PriceDone(t, reply)
              /\ t.snap[t.i] \in EnteredIds
              /\ positions[t.snap[t.i]].status = "open") =>
                 LET id == t.snap[t.i]
                     changed == positions'[id].highestPrice # positions[id].highestPrice
                 IN  /\ changed <=> (reply.ok /\ reply.value # 0 /\
                                      updateTrailingStop(positions[id], reply.value))
                     /\ changed => disk' = Serialize(state', positions')]_vars

\* a position entered at 200, still open, has had its highest price raised
\* to 240 and its stop to 204, and the file holds both
C30_Witness ==
    \E id \in EnteredIds :
        /\ positions[id].status = "open"
        /\ id \in OpenIds
        /\ positions[id].entryPrice = 200
        /\ positions[id].highestPrice = 240
        /\ positions[id].stopLoss = 204
        /\ disk = Serialize(state, positions)

C32_OneOpenPositionPerToken ==
    [][(alive /\ alive') =>
          \A id \in DOMAIN positions' \ DOMAIN positions :
              \A held \in OpenIds :
                  positions[held].status = "open" =>
                      positions[held].tokenAddress # positions'[id].tokenAddress]_vars

\* the queue while the process runs: at most one flush loop, flushing
\* exactly when there is one, a loop whenever the queue is not empty, and
\* the texts shifted so far followed by the queue are the texts pushed so
\* far, in their order
QueueDiscipline ==
    /\ BagCardinality(notifier.loops) <= 1
    /\ notifier.flushing <=> (BagCardinality(notifier.loops) = 1)
    /\ notifier.queue # <<>> => notifier.flushing
    /\ notifier.sent = notifier.attempts \o notifier.queue

\* C33: the notifier has at most one flush loop at any time, has one
\* whenever its queue is not empty, and attempts every text pushed exactly
\* once, in the order pushed: the texts attempted followed by the queue are
\* always the texts pushed, and every text pushed is eventually attempted.
C33_NotifierQueue ==
    /\ []QueueDiscipline
    /\ (Len(notifier.attempts) < Len(notifier.sent))
          ~> (Len(notifier.attempts) = Len(notifier.sent))

\* as long as the process is not shut down every text pushed is attempted
DrainsWhileRunning ==
    ([]alive) => ((Len(notifier.attempts) < Len(notifier.sent))
                     ~> (Len(notifier.attempts) = Len(notifier.sent)))

\* C34: an error raised while a monitor pass processes one position (here
\* saveState throwing, after a ratchet or at the end of exit()) stays with
\* that position: the process goes on and the pass requests the price of
\* the next position of its snapshot, or ends after the last.
C34_MonitorErrorContained ==
    [][\A t \in BagToSet(monitors) :
          (\/ \E reply \in ScenarioReplies :
                 /\ PriceDoneStoring(t, reply, FALSE)
                 /\ reply.ok /\ reply.value # 0
                 /\ updateTrailingStop(positions[t.snap[t.i]], reply.value)
           \/ \E result \in SellResults : SellDoneStoring(t, result, FALSE))
          => /\ alive'
             /\ monitors' = IF t.i < Len(t.snap)
                            THEN With(Without(monitors, t), MonitorTask(t.snap, t.i + 1))
                            ELSE Without(monitors, t)]_vars

\* the exit of the first of two positions is about to end in a failed
\* write, and the step takes the pass to the second position
C34_Witness ==
    \E t \in BagToSet(monitors) :
        /\ t.pc = "sell" /\ t.i = 1 /\ Len(t.snap) = 2
        /\ ENABLED (/\ SellDoneStoring(t, SellFailed, FALSE)
                    /\ disk' = disk
                    /\ BagIn(MonitorTask(t.snap, 2), monitors'))

\* the process has been shut down: the intervals are cleared, the process
\* has ended and state.json says isRunning false
ProcessEnded == ~alive /\ ~timersActive /\ ~disk.isRunning

\* C35: once the cumulative PnL has reached the portfolio stop (an exit
\* has raised the halt), the process is eventually shut down, given that
\* the heartbeat keeps firing.
C35_HaltLeadsToShutdown ==
    (state.totalPnlSol <= -portfolioStopLossSol) ~> ProcessEnded

\* the process is shut down when the cumulative PnL stays at or under the
\* portfolio stop
LastingLossLeadsToShutdown ==
    (<>[](state.totalPnlSol <= -portfolioStopLossSol)) => <>ProcessEnded

====
